---- MODULE Spec2Model ----
(***************************************************************************)
(* A model of github.com/brunotm/uulid: the monotonic Generator            *)
(* (generator.go) and the UULID value type with its binary/text codec      *)
(* (uulid.go).                                                             *)
(*                                                                         *)
(* Widths are the program's own.  A uint64 is a big-endian tuple of eight  *)
(* bytes (TLC's integers are 32 bit wide), a uint16 is an integer in       *)
(* 0..65535, a UULID is a tuple of sixteen bytes, a text is a tuple of     *)
(* ASCII codes.                                                            *)
(***************************************************************************)
EXTENDS Integers, Sequences, FiniteSets, TLC

(***************************************************************************)
(* Fixed-width arithmetic on big-endian byte tuples.                       *)
(***************************************************************************)
Bytes(n, b) == [i \in 1..n |-> b]

U64Zero == Bytes(8, 0)

U64Max == Bytes(8, 255)

\* a < b for two unsigned big-endian numbers of the same length (Go's < on uint64)
Lt(a, b) ==
    \E i \in 1..Len(a) : a[i] < b[i] /\ \A j \in 1..(i - 1) : a[j] = b[j]

\* a + b with wrap-around at 256^Len(a) (Go's + on uint64)
Add(a, b) ==
    LET n == Len(a)
        c[i \in 1..(n + 1)] == IF i = n + 1 THEN 0 ELSE (a[i] + b[i] + c[i + 1]) \div 256
    IN  [i \in 1..n |-> (a[i] + b[i] + c[i + 1]) % 256]

\* x++ with wrap-around (Go's ++ on an unsigned integer of Len(x) bytes)
Inc(x) == Add(x, [i \in 1..Len(x) |-> IF i = Len(x) THEN 1 ELSE 0])

\* bitwise exclusive or of two bytes
Xor8(x, y) ==
    LET d(w) == IF (x \div w) % 2 = (y \div w) % 2 THEN 0 ELSE w
    IN  d(1) + d(2) + d(4) + d(8) + d(16) + d(32) + d(64) + d(128)

\* a ^ b on uint64
Xor(a, b) == [i \in 1..Len(a) |-> Xor8(a[i], b[i])]

\* bits.Mul64: the 128-bit product of two uint64, as sixteen big-endian bytes
\* (schoolbook multiplication in base 256: col[k] sums the products of the
\* digits of weight 256^k, t[k] adds the carry of the lower columns)
Mul64(a, b) ==
    LET col == [k \in 0..15 |->
                  LET from == IF k > 7 THEN k - 7 ELSE 0
                      to   == IF k > 7 THEN 7 ELSE k
                      s[i \in from..(to + 1)] ==
                          IF i > to THEN 0 ELSE a[8 - i] * b[8 - (k - i)] + s[i + 1]
                  IN  s[from]]
        t[k \in 0..15] == col[k] + (IF k = 0 THEN 0 ELSE t[k - 1] \div 256)
    IN  [i \in 1..16 |-> t[16 - i] % 256]

\* PutUint16 / Uint16 of encoding/binary.BigEndian
PutUint16(v) == <<v \div 256, v % 256>>

Uint16(p) == p[1] * 256 + p[2]

(***************************************************************************)
(* uulid.go: constants, errors and the UULID value type.                   *)
(***************************************************************************)
\* MaxTimestamp = 281474976710655 = 2^48 - 1, as a uint64
MaxTimestamp == <<0, 0, 255, 255, 255, 255, 255, 255>>

HexEncodedSize == 36

BinarySize == 16

Nil == "nil"

ErrBigTime == "ErrBigTime"

ErrDataSize == "ErrDataSize"

ErrBufferSize == "ErrBufferSize"

ErrInvalidType == "ErrInvalidType"

ErrMonotonicOverflow == "ErrMonotonicOverflow"

ErrSmallTime == "ErrSmallTime"

\* the zero value of type UULID [BinarySize]byte
ZeroUULID == Bytes(BinarySize, 0)

\* Timestamp as it would be if it read eight bytes, as the
\* binary.BigEndian.Uint64 it was adapted from does
TimestampUint64(id) == SubSeq(id, 1, 8)

\* func (id UULID) Timestamp() uint64
Timestamp(id) == <<0, 0, id[1], id[2], id[3], id[4], id[5], id[6]>>

\* SetTimestamp as it would be if the check were ms >= MaxTimestamp
SetTimestampOffByOne(id, ms) ==
    IF ~Lt(ms, MaxTimestamp)
    THEN [id |-> id, err |-> ErrBigTime]
    ELSE [id |-> [i \in 1..BinarySize |-> IF i <= 6 THEN ms[i + 2] ELSE id[i]],
          err |-> Nil]

\* func (id *UULID) SetTimestamp(ms uint64) error: the identifier after the call
\* and the error
SetTimestamp(id, ms) ==
    IF Lt(MaxTimestamp, ms)
    THEN [id |-> id, err |-> ErrBigTime]
    ELSE [id |-> [i \in 1..BinarySize |-> IF i <= 6 THEN ms[i + 2] ELSE id[i]],
          err |-> Nil]

\* func (id UULID) Entropy() []byte
Entropy(id) == SubSeq(id, 7, 16)

\* func (id UULID) Compare(other UULID) int: bytes.Compare
Compare(id, other) ==
    IF id = other THEN 0 ELSE IF Lt(id, other) THEN -1 ELSE 1

\* encoding/hex: the digit of a nibble ("0123456789abcdef") and the value of a
\* character, 255 for a character that is no hex digit
hexDigit(n) == IF n < 10 THEN 48 + n ELSE 87 + n

fromHexChar(c) ==
    IF c \in 48..57 THEN c - 48
    ELSE IF c \in 97..102 THEN c - 87
    ELSE IF c \in 65..70 THEN c - 55
    ELSE 255

\* hex.Encode(dst, src): the 2 * len(src) bytes written
hexEncode(src) ==
    [i \in 1..(2 * Len(src)) |->
        hexDigit(IF i % 2 = 1 THEN src[(i + 1) \div 2] \div 16 ELSE src[i \div 2] % 16)]

InvalidByteError == "hex.InvalidByteError"

ErrLength == "hex.ErrLength"

\* the pairs of characters of src that hold a character that is no hex digit
badPairs(src) ==
    {k \in 1..(Len(src) \div 2) :
        fromHexChar(src[2 * k - 1]) = 255 \/ fromHexChar(src[2 * k]) = 255}

\* hex.Decode's loop over src, whose pairs `bad` cannot be decoded: dst after
\* the loop (the bytes decoded before the first such pair are written) and the error
hexDecodeLoop(dst, src, bad) ==
    [dst |-> [i \in 1..Len(dst) |->
                IF i <= Len(src) \div 2 /\ \A k \in bad : i < k
                THEN fromHexChar(src[2 * i - 1]) * 16 + fromHexChar(src[2 * i])
                ELSE dst[i]],
     err |-> IF bad # {} THEN InvalidByteError
             ELSE IF Len(src) % 2 = 1 THEN ErrLength ELSE Nil]

\* hex.Decode(dst, src): dst after the call and the error
hexDecode(dst, src) == hexDecodeLoop(dst, src, badPairs(src))

\* id with the bytes from..to replaced by d.dst, and d's error
splice(id, from, to, d) ==
    [id |-> [i \in 1..BinarySize |-> IF i \in from..to THEN d.dst[i - from + 1] ELSE id[i]],
     err |-> d.err]

\* hex.Decode(id[from-1:to], src): the identifier after the call and the error
decodeInto(id, from, to, src) ==
    splice(id, from, to, hexDecode(SubSeq(id, from, to), src))

\* if _, err := hex.Decode(id[from-1:to], src); err != nil { return err }, after
\* the steps that left d
thenDecode(d, from, to, src) ==
    IF d.err # Nil THEN d ELSE decodeInto(d.id, from, to, src)

\* the end of parse, after the switch left dec:
\* if id.Timestamp() > MaxTimestamp { return ErrBigTime }
checkTimestamp(dec) ==
    IF dec.err # Nil THEN dec
    ELSE IF Lt(MaxTimestamp, Timestamp(dec.id)) THEN [id |-> dec.id, err |-> ErrBigTime]
    ELSE dec

\* parse as it would be if the 36-character case did not step over the dashes
parseDashesNotSkipped(data, id) ==
    checkTimestamp(
        CASE Len(data) = 16 -> [id |-> data, err |-> Nil]
          [] Len(data) = 32 -> decodeInto(id, 1, 16, data)
          [] Len(data) = 36 ->
                thenDecode(thenDecode(thenDecode(thenDecode(
                    decodeInto(id, 1, 4, SubSeq(data, 1, 8)),
                    5, 6, SubSeq(data, 9, 12)),
                    7, 8, SubSeq(data, 13, 16)),
                    9, 10, SubSeq(data, 17, 20)),
                    11, 16, SubSeq(data, 21, 32))
          [] OTHER -> [id |-> id, err |-> ErrDataSize])

\* func parse(data []byte, id *UULID) error: the identifier after the call and
\* the error
parse(data, id) ==
    checkTimestamp(
        CASE Len(data) = 16 -> [id |-> data, err |-> Nil]
          [] Len(data) = 32 -> decodeInto(id, 1, 16, data)
          [] Len(data) = 36 ->
                thenDecode(thenDecode(thenDecode(thenDecode(
                    decodeInto(id, 1, 4, SubSeq(data, 1, 8)),
                    5, 6, SubSeq(data, 10, 13)),
                    7, 8, SubSeq(data, 15, 18)),
                    9, 10, SubSeq(data, 20, 23)),
                    11, 16, SubSeq(data, 25, 36))
          [] OTHER -> [id |-> id, err |-> ErrDataSize])

\* func Parse(data []byte) (UULID, error)
Parse(data) == parse(data, ZeroUULID)

\* func (id *UULID) UnmarshalText(data []byte) error
UnmarshalText(id, data) == parse(data, id)

\* func (id *UULID) UnmarshalJSON(data []byte) error
UnmarshalJSON(id, data) == parse(data, id)

\* UnmarshalBinary as it would be without the check of len(data)
UnmarshalBinaryUnchecked(id, data) == parse(data, id)

\* func (id *UULID) UnmarshalBinary(data []byte) error
UnmarshalBinary(id, data) ==
    IF Len(data) # BinarySize THEN [id |-> id, err |-> ErrDataSize] ELSE parse(data, id)

\* the dynamic types Scan is given: nil, string, []byte and any other (int64)
SrcTypes == {"nil", "string", "bytes", "int64"}

\* func (id *UULID) Scan(src interface{}) error, src of dynamic type t and value data
Scan(id, t, data) ==
    CASE t = "nil" -> [id |-> id, err |-> Nil]
      [] t = "string" -> parse(data, id)
      [] t = "bytes" -> parse(data, id)
      [] OTHER -> [id |-> id, err |-> ErrInvalidType]

\* func (id UULID) MarshalBinaryTo(dst []byte) error: dst after the call and the error
MarshalBinaryTo(id, dst) ==
    IF Len(dst) # BinarySize THEN [dst |-> dst, err |-> ErrBufferSize]
    ELSE [dst |-> id, err |-> Nil]

\* func (id UULID) MarshalBinary() ([]byte, error)
MarshalBinary(id) == MarshalBinaryTo(id, Bytes(BinarySize, 0))

\* func (id UULID) MarshalTextTo(dst []byte) error: dst after the call and the error
MarshalTextTo(id, dst) ==
    IF Len(dst) # HexEncodedSize THEN [dst |-> dst, err |-> ErrBufferSize]
    ELSE [dst |-> hexEncode(SubSeq(id, 1, 4)) \o <<45>>
                  \o hexEncode(SubSeq(id, 5, 6)) \o <<45>>
                  \o hexEncode(SubSeq(id, 7, 8)) \o <<45>>
                  \o hexEncode(SubSeq(id, 9, 10)) \o <<45>>
                  \o hexEncode(SubSeq(id, 11, 16)),
          err |-> Nil]

\* func (id UULID) MarshalText() ([]byte, error)
MarshalText(id) == MarshalTextTo(id, Bytes(HexEncodedSize, 0))

(***************************************************************************)
(* generator.go: the Generator.  A generator is the record of its fields   *)
(* seed, ms, hi, lo; the mutex is the variable mu.                         *)
(***************************************************************************)
\* 0xa0761d6478bd642f
SeedStep == <<160, 118, 29, 100, 120, 189, 100, 47>>

\* 0xe7037ed1a0b428db
SeedMask == <<231, 3, 126, 209, 160, 180, 40, 219>>

\* func NewGeneratorWithSeed(seed uint64) *Generator
NewGeneratorWithSeed(seed) == [seed |-> seed, ms |-> U64Zero, hi |-> 0, lo |-> U64Zero]

\* hi, lo := bits.Mul64(seed^0xe7037ed1a0b428db, seed); hi ^ lo
mix(seed) ==
    LET m == Mul64(Xor(seed, SeedMask), seed)
    IN  Xor(SubSeq(m, 1, 8), SubSeq(m, 9, 16))

NCallers == 2

MaxCalls == 3

\* seeds given to NewGeneratorWithSeed.  The last two make the second uint64r of
\* the second advance return 0: its seed is then 0, resp. SeedMask, the only two
\* seeds whose 128-bit product has equal halves.
Seeds ==
    { U64Zero,
      <<1, 120, 162, 132, 158, 175, 179, 231>>,
      <<126, 39, 138, 110, 29, 10, 111, 68>>,
      <<101, 43, 9, 63, 189, 190, 152, 31>> }

\* seed after k additions of SeedStep
RECURSIVE SeedAfter(_, _)
SeedAfter(seed, k) == IF k = 0 THEN seed ELSE Add(SeedAfter(seed, k - 1), SeedStep)

\* mix, computed once for every seed value a behaviour can reach (a call of New
\* steps the seed at most twice)
mixTable ==
    [s \in {SeedAfter(seed, k) : seed \in Seeds, k \in 1..(2 * MaxCalls)} |-> mix(s)]

\* func (r *Generator) uint64r() uint64: the generator after the call and the value
uint64r(g) ==
    LET seed == Add(g.seed, SeedStep)
    IN  [r |-> [g EXCEPT !.seed = seed],
         v |-> IF seed \in DOMAIN mixTable THEN mixTable[seed] ELSE mix(seed)]

\* func (r *Generator) advance(ms uint64): the generator after the call
advance(g, ms) ==
    LET a == uint64r([g EXCEPT !.ms = ms])
        b == uint64r(a.r)
    IN  [b.r EXCEPT !.hi = Uint16(SubSeq(a.v, 7, 8)), !.lo = b.v]

\* read as it would be if the carry into r.hi were forgotten when r.lo wraps
readNoCarry(g, p, ms) ==
    IF g.ms = ms
    THEN LET g1 == [g EXCEPT !.lo = Inc(g.lo)]
         IN  [r |-> g1, p |-> PutUint16(g1.hi) \o g1.lo, err |-> Nil]
    ELSE LET g1 == advance(g, ms)
         IN  [r |-> g1, p |-> PutUint16(g1.hi) \o g1.lo, err |-> Nil]

\* read as it would be if every wrap of r.lo were reported as an overflow
readOverflowOnLoWrap(g, p, ms) ==
    IF g.ms = ms
    THEN LET lo   == Inc(g.lo)
             wrap == Lt(lo, g.lo)
             hi   == IF wrap THEN (g.hi + 1) % (2 ^ 16) ELSE g.hi
             g1   == [g EXCEPT !.lo = lo, !.hi = hi]
         IN  IF wrap
             THEN [r |-> g1, p |-> p, err |-> ErrMonotonicOverflow]
             ELSE [r |-> g1, p |-> PutUint16(hi) \o lo, err |-> Nil]
    ELSE LET g1 == advance(g, ms)
         IN  [r |-> g1, p |-> PutUint16(g1.hi) \o g1.lo, err |-> Nil]

\* read as it would be if the counter were written to p before it is incremented
readWriteBeforeIncrement(g, p, ms) ==
    IF g.ms = ms
    THEN LET lo   == Inc(g.lo)
             wrap == Lt(lo, g.lo)
             hi   == IF wrap THEN (g.hi + 1) % (2 ^ 16) ELSE g.hi
             g1   == [g EXCEPT !.lo = lo, !.hi = hi]
         IN  IF wrap /\ hi < g.hi
             THEN [r |-> g1, p |-> p, err |-> ErrMonotonicOverflow]
             ELSE [r |-> g1, p |-> PutUint16(g.hi) \o g.lo, err |-> Nil]
    ELSE LET g1 == advance(g, ms)
         IN  [r |-> g1, p |-> PutUint16(g1.hi) \o g1.lo, err |-> Nil]

\* func (r *Generator) read(p []byte, ms uint64) error: the generator after the
\* call, the ten bytes of p after the call and the error
read(g, p, ms) ==
    IF g.ms = ms
    THEN LET lo   == Inc(g.lo)
             wrap == Lt(lo, g.lo)
             hi   == IF wrap THEN (g.hi + 1) % (2 ^ 16) ELSE g.hi
             g1   == [g EXCEPT !.lo = lo, !.hi = hi]
         IN  IF wrap /\ hi < g.hi
             THEN [r |-> g1, p |-> p, err |-> ErrMonotonicOverflow]
             ELSE [r |-> g1, p |-> PutUint16(hi) \o lo, err |-> Nil]
    ELSE LET g1 == advance(g, ms)
         IN  [r |-> g1, p |-> PutUint16(g1.hi) \o g1.lo, err |-> Nil]

\* func (r *Generator) New() (UULID, error), between Lock and Unlock, with ms the
\* value of Timestamp(time.Now()): the generator after the call, the identifier
\* and the error returned
NewLocked(g, ms) ==
    LET st == SetTimestamp(ZeroUULID, ms)
    IN  IF st.err # Nil
        THEN [r |-> g, id |-> st.id, err |-> st.err]
        ELSE LET rd == read(g, Entropy(st.id), ms)
             IN  [r |-> rd.r, id |-> SubSeq(st.id, 1, 6) \o rd.p, err |-> rd.err]

(***************************************************************************)
(* The callers of one shared Generator.                                    *)
(***************************************************************************)
Callers == 1..NCallers

\* readings of the wall clock, Timestamp(time.Now()): 0, 1, 2^48 - 1 and 2^48
ClockValues ==
    { U64Zero,
      <<0, 0, 0, 0, 0, 0, 0, 1>>,
      MaxTimestamp,
      <<0, 1, 0, 0, 0, 0, 0, 0>> }

\* The identifier with timestamp 0 and entropy 1: what the first New of a
\* generator returns when the clock reads 0 (g.ms = 0 = ms, the counter goes 0 -> 1).
FirstAtZero == [i \in 1..BinarySize |-> IF i = BinarySize THEN 1 ELSE 0]

\* Counter values (hi, lo) a generator holds after 2^64 - 2, 2^72 - 1, 2^80 - 2 and
\* 2^80 - 1 calls of New that all read the clock at 0.
LateCounters ==
    { [hi |-> 0, lo |-> [U64Max EXCEPT ![8] = 254]],
      [hi |-> 255, lo |-> U64Max],
      [hi |-> 65535, lo |-> [U64Max EXCEPT ![8] = 254]],
      [hi |-> 65535, lo |-> U64Max] }

VARIABLES
    r,        \* the Generator's fields
    mu,       \* Generator.mu: the caller holding it, 0 when free
    pc,       \* each caller's position in New
    log,      \* the calls of New in the order they held mu: caller, clock
              \* reading, generator before the call, identifier and error returned
    earlier,  \* identifiers the generator returned without error before the
              \* first state of the behaviour (those that are known)
    u         \* the codec's state, see below

vars == <<r, mu, pc, log, earlier, u>>

\* the codec is idle while the generator runs
CodecIdle == [op |-> "none"]

\* The states a behaviour starts in: a generator as NewGeneratorWithSeed leaves
\* it, or the same generator after a run of calls that all read the clock at 0
\* (such a run never calls advance, so the seed is untouched and the first call
\* returned FirstAtZero).
Init ==
    /\ \/ \E seed \in Seeds :
            /\ r = NewGeneratorWithSeed(seed)
            /\ earlier = {}
       \/ \E c \in LateCounters :
            /\ r = [NewGeneratorWithSeed(U64Zero) EXCEPT !.hi = c.hi, !.lo = c.lo]
            /\ earlier = {FirstAtZero}
    /\ mu = 0
    /\ pc = [c \in Callers |-> "idle"]
    /\ log = <<>>
    /\ u = CodecIdle

\* r.mu.Lock()
Lock(c) ==
    /\ pc[c] = "idle"
    /\ Len(log) < MaxCalls
    /\ mu = 0
    /\ mu' = c
    /\ pc' = [pc EXCEPT ![c] = "locked"]
    /\ UNCHANGED <<r, log, earlier, u>>

\* the body of New, run while holding mu
Generate(c) ==
    /\ pc[c] = "locked"
    /\ mu = c
    /\ \E now \in ClockValues :
         LET res == NewLocked(r, now)
         IN  /\ r' = res.r
             /\ log' = Append(log, [caller |-> c, ms |-> now, pre |-> r,
                                    id |-> res.id, err |-> res.err])
    /\ pc' = [pc EXCEPT ![c] = "unlock"]
    /\ UNCHANGED <<mu, earlier, u>>

\* defer r.mu.Unlock(), and the return to the caller
Unlock(c) ==
    /\ pc[c] = "unlock"
    /\ mu = c
    /\ mu' = 0
    /\ pc' = [pc EXCEPT ![c] = "idle"]
    /\ UNCHANGED <<r, log, earlier, u>>

Next == \E c \in Callers : Lock(c) \/ Generate(c) \/ Unlock(c)

Spec == Init /\ [][Next]_vars

(***************************************************************************)
(* The codec: one identifier u.id, a byte slice u.wire, and the operations *)
(* of uulid.go applied to them.  u.old is the identifier before the last   *)
(* operation, u.wireOf the identifier u.wire was marshalled from (<<>>     *)
(* when it was not), u.parsed the slice u.id was parsed from by the last   *)
(* Parse that succeeded (<<>> when it was not), u.ms the argument of the   *)
(* last SetTimestamp, u.n the number of operations applied.                *)
(***************************************************************************)
MaxOps == 2

\* "0178a284-9eaf-b3e7-036d-5b1b9f3cd753", uulid_test.go's encoded
TextEncoded ==
    <<48, 49, 55, 56, 97, 50, 56, 52, 45, 57, 101, 97, 102, 45, 98, 51, 101, 55,
      45, 48, 51, 54, 100, 45, 53, 98, 49, 98, 57, 102, 51, 99, 100, 55, 53, 51>>

\* "01234567-89ab-cdef-fedc-ba9876543210"
TextDigits ==
    <<48, 49, 50, 51, 52, 53, 54, 55, 45, 56, 57, 97, 98, 45, 99, 100, 101, 102,
      45, 102, 101, 100, 99, 45, 98, 97, 57, 56, 55, 54, 53, 52, 51, 50, 49, 48>>

\* "0178A284-9EAF-B3E7-036D-5B1B9F3CD753"
TextUpper ==
    <<48, 49, 55, 56, 65, 50, 56, 52, 45, 57, 69, 65, 70, 45, 66, 51, 69, 55,
      45, 48, 51, 54, 68, 45, 53, 66, 49, 66, 57, 70, 51, 67, 68, 55, 53, 51>>

\* the positions of the dashes in the 36-character form (8, 13, 18, 23 from 0)
DashAt == {9, 14, 19, 24}

NoDashes(text) == SelectSeq(text, LAMBDA c : c # 45)

\* the identifier of uulid_test.go: timestamp 1617634303663, entropy b3e7036d5b1b9f3cd753
IdEncoded == <<1, 120, 162, 132, 158, 175, 179, 231, 3, 109, 91, 27, 159, 60, 215, 83>>

\* 0123456789abcdeffedcba9876543210
IdDigits == <<1, 35, 69, 103, 137, 171, 205, 239, 254, 220, 186, 152, 118, 84, 50, 16>>

SampleIds ==
    { ZeroUULID,
      Bytes(BinarySize, 255),
      IdEncoded,
      IdDigits,
      [i \in 1..BinarySize |-> 17 * (i - 1)],
      [i \in 1..BinarySize |-> IF i <= 6 THEN 255 ELSE 0] }

\* what a decoder is given: well-formed and malformed inputs of the three
\* accepted lengths, and inputs of other lengths
SampleInputs ==
    { TextEncoded,
      TextDigits,
      [i \in 1..36 |-> IF i \in DashAt THEN 45 ELSE 102],
      TextUpper,
      [i \in 1..36 |-> IF i \in DashAt THEN 97 ELSE TextEncoded[i]],
      [TextEncoded EXCEPT ![36] = 103],
      [TextEncoded EXCEPT ![1] = 120],
      [TextEncoded EXCEPT ![12] = 32],
      NoDashes(TextEncoded),
      NoDashes(TextUpper),
      [NoDashes(TextEncoded) EXCEPT ![21] = 45],
      Bytes(32, 102),
      IdEncoded,
      Bytes(16, 255),
      SubSeq(TextDigits, 1, 16),
      <<>>,
      SubSeq(TextDigits, 10, 21),
      SubSeq(IdEncoded, 1, 15),
      Append(IdEncoded, 0),
      SubSeq(NoDashes(TextEncoded), 1, 31),
      Append(NoDashes(TextEncoded), 48),
      SubSeq(TextEncoded, 1, 35),
      Append(TextEncoded, 48),
      TextEncoded \o TextEncoded }

\* arguments of SetTimestamp: 0, 1, 1617634303663, 2^48 - 1, 2^48, 2^48 + 0x020304050607
\* and 2^64 - 1
SampleMillis ==
    { U64Zero,
      <<0, 0, 0, 0, 0, 0, 0, 1>>,
      <<0, 0, 1, 120, 162, 132, 158, 175>>,
      MaxTimestamp,
      <<0, 1, 0, 0, 0, 0, 0, 0>>,
      <<0, 1, 2, 3, 4, 5, 6, 7>>,
      U64Max }

\* the generator is idle while the codec runs
CodecInit ==
    /\ r = NewGeneratorWithSeed(U64Zero)
    /\ mu = 0
    /\ pc = [c \in Callers |-> "idle"]
    /\ log = <<>>
    /\ earlier = {}
    /\ \E id \in SampleIds, data \in SampleInputs :
         u = [op |-> "none", id |-> id, old |-> id, wire |-> data, wireOf |-> <<>>,
              parsed |-> <<>>, ms |-> U64Zero, err |-> Nil, n |-> 0]

\* the state after an operation op that leaves identifier id and error err
Applied(op, id, old, err) ==
    [u EXCEPT !.op = op, !.id = id, !.old = old, !.err = err, !.n = u.n + 1,
              !.parsed = <<>>]

\* id, err := Parse(data)
DoParse ==
    /\ u.n < MaxOps
    /\ LET res == Parse(u.wire)
       IN  u' = [Applied("Parse", res.id, ZeroUULID, res.err) EXCEPT
                    !.parsed = IF res.err = Nil THEN u.wire ELSE <<>>]
    /\ UNCHANGED <<r, mu, pc, log, earlier>>

\* err := id.UnmarshalText(data)
DoUnmarshalText ==
    /\ u.n < MaxOps
    /\ LET res == UnmarshalText(u.id, u.wire)
       IN  u' = Applied("UnmarshalText", res.id, u.id, res.err)
    /\ UNCHANGED <<r, mu, pc, log, earlier>>

\* err := id.UnmarshalJSON(data)
DoUnmarshalJSON ==
    /\ u.n < MaxOps
    /\ LET res == UnmarshalJSON(u.id, u.wire)
       IN  u' = Applied("UnmarshalJSON", res.id, u.id, res.err)
    /\ UNCHANGED <<r, mu, pc, log, earlier>>

\* err := id.UnmarshalBinary(data)
DoUnmarshalBinary ==
    /\ u.n < MaxOps
    /\ LET res == UnmarshalBinary(u.id, u.wire)
       IN  u' = Applied("UnmarshalBinary", res.id, u.id, res.err)
    /\ UNCHANGED <<r, mu, pc, log, earlier>>

\* err := id.Scan(src)
DoScan ==
    /\ u.n < MaxOps
    /\ \E t \in SrcTypes :
         LET res == Scan(u.id, t, u.wire)
         IN  u' = Applied("Scan." \o t, res.id, u.id, res.err)
    /\ UNCHANGED <<r, mu, pc, log, earlier>>

\* data, err := id.MarshalText()
DoMarshalText ==
    /\ u.n < MaxOps
    /\ LET res == MarshalText(u.id)
       IN  u' = [u EXCEPT !.op = "MarshalText", !.old = u.id, !.err = res.err,
                          !.n = u.n + 1, !.wire = res.dst, !.wireOf = u.id]
    /\ UNCHANGED <<r, mu, pc, log, earlier>>

\* data, err := id.MarshalBinary()
DoMarshalBinary ==
    /\ u.n < MaxOps
    /\ LET res == MarshalBinary(u.id)
       IN  u' = [u EXCEPT !.op = "MarshalBinary", !.old = u.id, !.err = res.err,
                          !.n = u.n + 1, !.wire = res.dst, !.wireOf = u.id]
    /\ UNCHANGED <<r, mu, pc, log, earlier>>

\* err := id.SetTimestamp(ms)
DoSetTimestamp ==
    /\ u.n < MaxOps
    /\ \E ms \in SampleMillis :
         LET res == SetTimestamp(u.id, ms)
         IN  u' = [Applied("SetTimestamp", res.id, u.id, res.err) EXCEPT !.ms = ms]
    /\ UNCHANGED <<r, mu, pc, log, earlier>>

CodecNext ==
    \/ DoParse
    \/ DoUnmarshalText
    \/ DoUnmarshalJSON
    \/ DoUnmarshalBinary
    \/ DoScan
    \/ DoMarshalText
    \/ DoMarshalBinary
    \/ DoSetTimestamp

CodecSpec == CodecInit /\ [][CodecNext]_vars

(***************************************************************************)
(* Properties of the Generator, stated over the log of calls.              *)
(***************************************************************************)
Calls == 1..Len(log)

Ok(i) == log[i].err = Nil

EntropyMax == Bytes(10, 255)

\* C1: two directly successive calls of New on one generator that both return
\* without error and read the same millisecond return the same timestamp, and
\* the second's entropy, read as one 80-bit big-endian number, is the first's
\* plus one (without wrapping).
C1_SuccessorEntropy ==
    \A i \in Calls :
        (i + 1 \in Calls /\ Ok(i) /\ Ok(i + 1) /\ log[i].ms = log[i + 1].ms)
        => /\ Timestamp(log[i + 1].id) = Timestamp(log[i].id)
           /\ Entropy(log[i].id) # EntropyMax
           /\ Entropy(log[i + 1].id) = Inc(Entropy(log[i].id))

\* C1's case with the carry: the first identifier's low 64 bits are all ones
C1_Witness ==
    \E i \in Calls :
        /\ i + 1 \in Calls /\ Ok(i) /\ Ok(i + 1) /\ log[i].ms = log[i + 1].ms
        /\ SubSeq(log[i].id, 9, 16) = U64Max
        /\ SubSeq(log[i + 1].id, 9, 16) = U64Zero

\* C2: for every caller, an identifier it obtains and the one it obtains by its
\* next call, both without error, compare as -1 (and as 1 the other way round),
\* whatever the other callers do in between.
C2_PerCallerIncreasing ==
    \A i, j \in Calls :
        (/\ i < j
         /\ log[i].caller = log[j].caller
         /\ \A k \in (i + 1)..(j - 1) : log[k].caller # log[i].caller
         /\ Ok(i) /\ Ok(j))
        => /\ Compare(log[i].id, log[j].id) = -1
           /\ Compare(log[j].id, log[i].id) = 1

\* C3: a call whose clock reading is lower than the millisecond the generator
\* recorded fails with ErrSmallTime, and no identifier returned without error
\* has a lower timestamp than one returned earlier.
C3_NoBackwardTime ==
    /\ \A j \in Calls :
         Lt(log[j].ms, log[j].pre.ms) => log[j].err = ErrSmallTime
    /\ \A i, j \in Calls :
         (i < j /\ Ok(i) /\ Ok(j))
         => ~Lt(Timestamp(log[j].id), Timestamp(log[i].id))

\* C4: the identifiers a generator returns without error are pairwise distinct.
C4_AllDistinct ==
    \A j \in Calls :
        Ok(j) => /\ log[j].id \notin earlier
                 /\ \A i \in Calls : (i # j /\ Ok(i)) => log[i].id # log[j].id

\* C5: New fails with ErrMonotonicOverflow exactly when the clock reading equals
\* the recorded millisecond and the counter is at its maximum; when only the low
\* half wraps the call succeeds with the high half incremented by one.
C5_OverflowExactlyAtMax ==
    \A i \in Calls :
        LET e    == log[i]
            same == e.ms = e.pre.ms
        IN  /\ (e.err = ErrMonotonicOverflow)
               <=> (same /\ e.pre.hi = 65535 /\ e.pre.lo = U64Max)
            /\ (same /\ e.pre.lo = U64Max /\ e.pre.hi < 65535)
               => /\ e.err = Nil
                  /\ SubSeq(e.id, 7, 8) = PutUint16(e.pre.hi + 1)
                  /\ SubSeq(e.id, 9, 16) = U64Zero

\* C5's case: a call has failed with ErrMonotonicOverflow
C5_Witness == \E i \in Calls : log[i].err = ErrMonotonicOverflow

\* C6: once a call has failed with ErrMonotonicOverflow, every later call that
\* still reads that millisecond fails with ErrMonotonicOverflow too.
C6_ExhaustionPermanent ==
    \A i, j \in Calls :
        (/\ i < j
         /\ log[i].err = ErrMonotonicOverflow
         /\ \A k \in i..j : log[k].ms = log[i].ms)
        => log[j].err = ErrMonotonicOverflow

\* C10: no identifier New returns without error is the all-zero identifier, and
\* the all-zero identifier compares as less than it.
C10_NeverZero ==
    \A i \in Calls :
        Ok(i) => /\ log[i].id # ZeroUULID
                 /\ Compare(ZeroUULID, log[i].id) = -1

\* C10's case: the clock reads millisecond 0 after another millisecond, and the
\* generator draws 0 for the low 64 bits of the entropy
C10_Witness ==
    \E i \in Calls :
        /\ Ok(i)
        /\ log[i].ms = U64Zero /\ log[i].pre.ms # U64Zero
        /\ Timestamp(log[i].id) = U64Zero
        /\ SubSeq(log[i].id, 9, 16) = U64Zero

(***************************************************************************)
(* Properties of the codec.                                                *)
(***************************************************************************)
\* a text MarshalText can produce: 36 characters, dashes at 8, 13, 18, 23 and
\* lowercase hex digits elsewhere
Canonical(text) ==
    /\ Len(text) = 36
    /\ \A i \in 1..36 :
         IF i \in DashAt THEN text[i] = 45 ELSE text[i] \in (48..57) \cup (97..102)

DecodeOps == {"Parse", "UnmarshalText", "UnmarshalJSON", "Scan.string", "Scan.bytes"}

C9_SetTimestamp ==
    u.op = "SetTimestamp"
    => IF u.ms[1] = 0 /\ u.ms[2] = 0
       THEN /\ u.err = Nil
            /\ Timestamp(u.id) = u.ms
            /\ Entropy(u.id) = Entropy(u.old)
       ELSE /\ u.err = ErrBigTime
            /\ u.id = u.old

\* C9's case: the timestamp of an identifier was set to 2^48 - 1
C9_Witness ==
    /\ u.op = "SetTimestamp"
    /\ u.ms = MaxTimestamp
    /\ u.err = Nil
    /\ u.old = IdEncoded
    /\ u.id # u.old

\* the characters encoding/hex decodes: 0-9, a-f and A-F
HexDigits == (48..57) \cup (97..102) \cup (65..70)

====
